---- MODULE Spec2Model ----
(***************************************************************************)
(* Request resolution and content dispatch of the higure.wtf proxy         *)
(* (main.go, requestHandler and sendErr).                                  *)
(*                                                                         *)
(* Strings are sequences of one-character strings, so that the prefix,     *)
(* suffix and split operations of the handler are computed as Go computes  *)
(* them.  A few multi-character tokens ("https://", "{domain}", a host     *)
(* name) stand for text no operation of the handler looks into.            *)
(***************************************************************************)
EXTENDS Integers, Sequences, FiniteSets, TLC

VARIABLES
    collection,     \* the "files" collection (FileRecords)
    invisibleURL,   \* the "invisibleurls" collection (InvisibleAliasRecords)
    shortenerCol,   \* the "shorteners" collection (ShortLinkRecords)
    svc,            \* the object store: key -> object, behind the S3 client
    h               \* the requestHandler invocation in flight (ctx and locals)

vars == <<collection, invisibleURL, shortenerCol, svc, h>>

\* Longest run of suffix tokens appended to a stem when request paths are drawn.
MaxSuffixes == 2

----------------------------------------------------------------------------
(* Strings *)

ZWSP == "\\u200B"
Slash == <<"/">>
DotJson == <<".", "j", "s", "o", "n">>
ZW == <<ZWSP>>
Favicon == <<"f", "a", "v", "i", "c", "o", "n", ".", "i", "c", "o">>
HttpPrefix == <<"h", "t", "t", "p">>
HttpsScheme == <<"h", "t", "t", "p", "s", ":", "/", "/">>
SPrefix == <<"/", "s", "/">>
DomainToken == "{domain}"
Nil == [nil |-> TRUE]

\* strings.HasPrefix
HasPrefix(s, p) ==
    /\ Len(p) <= Len(s)
    /\ SubSeq(s, 1, Len(p)) = p

\* strings.HasSuffix
HasSuffix(s, p) ==
    /\ Len(p) <= Len(s)
    /\ SubSeq(s, Len(s) - Len(p) + 1, Len(s)) = p

\* strings.Index: position of the first occurrence of sep in s, 0 when none
Index(s, sep) ==
    LET hits == {i \in 1..(Len(s) - Len(sep) + 1) : SubSeq(s, i, i + Len(sep) - 1) = sep}
    IN  IF hits = {} THEN 0 ELSE CHOOSE i \in hits : \A j \in hits : i <= j

\* strings.SplitN(s, sep, 2)[0]: the text before the first occurrence of sep
SplitNFirst(s, sep) ==
    LET i == Index(s, sep)
    IN  IF i = 0 THEN s ELSE SubSeq(s, 1, i - 1)

\* strings.ReplaceAll(s, "{domain}", host)
ReplaceAll(s, host) ==
    [i \in 1..Len(s) |-> IF s[i] = DomainToken THEN host ELSE s[i]]

RECURSIVE StripSlashes(_)
StripSlashes(p) ==
    IF Len(p) > 0 /\ p[Len(p)] = "/" THEN StripSlashes(SubSeq(p, 1, Len(p) - 1)) ELSE p

\* path.Base
Base(p) ==
    IF p = <<>> THEN <<".">>
    ELSE LET q == StripSlashes(p)
             slashes == {i \in 1..Len(q) : q[i] = "/"}
             last == IF slashes = {} THEN 0
                     ELSE CHOOSE i \in slashes : \A j \in slashes : j <= i
             r == SubSeq(q, last + 1, Len(q))
         IN  IF r = <<>> THEN Slash ELSE r

----------------------------------------------------------------------------
(* Requests *)

Hosts == {"a.com", "b.com"}
Stems == {<<"a">>, <<"s">>, Favicon}
Tokens == {DotJson, ZW}

RECURSIVE Suffixes(_)
Suffixes(k) ==
    IF k = 0 THEN {<<>>}
    ELSE LET S == Suffixes(k - 1) IN S \cup {s \o t : s \in S, t \in Tokens}

Names == {st \o su : st \in Stems, su \in Suffixes(MaxSuffixes)}

Paths ==
    {Slash}
    \cup {Slash \o n : n \in Names}
    \cup {SPrefix \o n : n \in Names}
    \cup {Slash \o n \o Slash : n \in Names}

----------------------------------------------------------------------------
(* The stores.  They are written by an upload path outside this program and *)
(* only read here.                                                          *)

Mimetypes == {<<"image", "/", "png">>, <<"video", "/", "mp4">>, <<"text", "/", "plain">>}
FileNames == {<<"a">>, <<"a">> \o DotJson, Favicon, <<"a">> \o ZW}

FileRecord(f, k, m, uod, sl, en) ==
    [filename |-> f, key |-> k, mimetype |-> m, size |-> "12 KB",
     domain |-> "a.com", userOnlyDomain |-> uod, showLink |-> sl,
     uploader |-> [username |-> "kana"],
     embed |-> [enabled |-> en,
                title |-> <<"file on ", DomainToken>>,
                author |-> <<DomainToken, " / ", DomainToken>>,
                description |-> <<"hosted by ", DomainToken, " for ", DomainToken>>,
                color |-> "#ff00aa"]]

FilePool ==
    {FileRecord(f, "k1", m, uod, sl, en) :
        f \in FileNames, m \in Mimetypes, uod \in BOOLEAN, sl \in BOOLEAN, en \in BOOLEAN}

\* A second upload that is always there, so that every lookup has to pick by key.
OtherFile == FileRecord(<<"s">>, "k2", <<"video", "/", "mp4">>, FALSE, TRUE, FALSE)

Aliases ==
    {[_id |-> <<"a">> \o ZW, filename |-> <<"a">>],
     [_id |-> <<"s">> \o ZW, filename |-> <<"a">> \o DotJson],
     [_id |-> Favicon \o ZW, filename |-> Favicon],
     [_id |-> <<"a">> \o ZW \o ZW, filename |-> <<"a">> \o ZW],
     [_id |-> <<"s">> \o ZW \o ZW, filename |-> <<"s">>],
     [_id |-> <<"a">> \o DotJson \o ZW, filename |-> <<"s">> \o ZW]}

ShortLinks ==
    {[shortId |-> <<"a">>, destination |-> <<"e", ".", "c", "/", "x">>],
     [shortId |-> <<"a">> \o ZW, destination |-> HttpPrefix \o <<":", "/", "/", "e">>],
     [shortId |-> Favicon, destination |-> HttpsScheme \o <<"e">>],
     [shortId |-> <<"a">> \o ZW \o ZW, destination |-> HttpPrefix \o <<"x", ".", "i", "o">>],
     [shortId |-> <<"s">> \o ZW, destination |-> <<"f", "t", "p", ":", "/", "/", "e">>],
     [shortId |-> <<"s">>, destination |-> <<"e">>],
     [shortId |-> <<"a">> \o DotJson, destination |-> <<"e">>]}

Keys == {"k1", "k2"}
Bytes(k) == <<"bytes of", k>>
\* GetObjectOutput.ContentType is a *string: the empty sequence is the nil pointer
Objects ==
    [k \in Keys |->
        [Body |-> Bytes(k), ContentType |-> IF k = "k1" THEN <<"image/png">> ELSE <<>>]]

----------------------------------------------------------------------------
(* fasthttp.RequestCtx: what the handler leaves in the response *)

DefaultContentType == "text/plain; charset=utf-8"
NewCtx == [status |-> 200, location |-> <<>>, contentType |-> DefaultContentType, body |-> <<>>]

\* ctx.Redirect(uri, statusCode)
Redirect(ctx, uri, code) == [ctx EXCEPT !.status = code, !.location = uri]

\* ctx.SetContentType
SetContentType(ctx, ct) == [ctx EXCEPT !.contentType = ct]

\* ctx.SetBody replaces the body
SetBody(ctx, b) == [ctx EXCEPT !.body = <<[kind |-> "bytes", bytes |-> b]>>]

\* ctx.Write (through json.Encoder or template.Execute) appends to the body
Write(ctx, chunk) == [ctx EXCEPT !.body = Append(@, chunk)]

Envelope(msg) == [kind |-> "Response", success |-> FALSE, error |-> msg]

sendErr(ctx, errMsg) ==
    Write([ctx EXCEPT !.contentType = "application/json"], Envelope(errMsg))

deref(str) == IF str # <<>> THEN str[1] ELSE ""

\* collection.FindOne(filter).Decode: the matching documents; none is the error
FindOne(coll, field, value) == {r \in coll : r[field] = value}

----------------------------------------------------------------------------
(* Templates *)

\* template.Execute(embedTemplate, data): the head block and the one body variant
\* the {{ if .Image }} / {{ else if .Video }} / {{ else }} chain selects
embedTemplate(data) ==
    [kind |-> "embed page",
     title |-> data.User,
     card |-> IF data.Image THEN "summary_large_image" ELSE "player",
     ogImage |-> IF data.Image THEN data.FileURL ELSE <<>>,
     ogDescription |-> IF data.Image THEN data.Desc ELSE <<>>,
     twitterPlayer |-> IF data.Image THEN <<>> ELSE data.FileURL,
     themeColor |-> data.Color,
     oembedHref |-> data.OEmbedURL,
     variant |-> IF data.Image THEN "image"
                 ELSE IF data.Video THEN "video"
                 ELSE "download",
     src |-> data.FileURL,
     name |-> IF ~data.Image /\ ~data.Video THEN data.Name ELSE <<>>,
     size |-> IF ~data.Image /\ ~data.Video THEN data.Size ELSE "",
     uploadedBy |-> data.User]

\* template.Execute(showLinkTemplate, data)
showLinkTemplate(data) ==
    [kind |-> "show-link page", ogImage |-> data.FileURL, src |-> data.FileURL]

\* What Execute has already written when it fails part way through a template
Fragment(name) == [kind |-> "fragment", of |-> name]

----------------------------------------------------------------------------
(* requestHandler.  A handler record is the invocation's position (pc), the *)
(* request (path, host), its locals and its ctx; calls lists the calls made *)
(* to the stores.  Every step below is one stretch of the function.         *)

\* Where a request can fail in the libraries the handler calls: at most one of
\* these matters to a request, because the handler returns at the first error.
Faults == {"none", "GetObject", "ReadAll", "Parse", "Execute", "ExecuteAfterOutput"}

Idle == [pc |-> "idle", path |-> <<>>, requestPath |-> <<>>, basePath |-> <<>>, host |-> "",
         fault |-> "none", file |-> Nil, resp |-> Nil, body |-> <<>>,
         data |-> Nil, ctx |-> NewCtx, calls |-> <<>>]

\* lines 127-129
Start(path, host, fault) ==
    [Idle EXCEPT !.pc = "switch", !.path = path, !.requestPath = path, !.basePath = Base(path),
                 !.host = host, !.fault = fault]

\* (mutant) the shortlink case tried before the oembed case
StrategyShortlinkFirst(requestPath) ==
    LET basePath == Base(requestPath)
    IN  IF requestPath = Slash THEN "root-redirect"
        ELSE IF HasPrefix(requestPath, SPrefix) /\ basePath # <<"s">> THEN "shortlink"
        ELSE IF HasSuffix(basePath, DotJson) THEN "oembed"
        ELSE IF basePath # <<>> /\ basePath # Favicon THEN "file-resolve"
        ELSE "no-op"

\* The switch of line 131: the first case whose condition holds
Strategy(requestPath) ==
    LET basePath == Base(requestPath)
    IN  IF requestPath = Slash THEN "root-redirect"
        ELSE IF HasSuffix(basePath, DotJson) THEN "oembed"
        ELSE IF HasPrefix(requestPath, SPrefix) /\ basePath # <<"s">> THEN "shortlink"
        ELSE IF basePath # <<>> /\ basePath # Favicon THEN "file-resolve"
        ELSE "no-op"

Call(c, op, on, key) == [c EXCEPT !.calls = Append(@, [op |-> op, on |-> on, key |-> key])]

Fail(c, msg) == [c EXCEPT !.ctx = sendErr(@, msg), !.pc = "done"]

\* line 133
caseRoot(c) ==
    [c EXCEPT !.ctx = Redirect(@, <<"https://higure.wtf">>, 301), !.pc = "done"]

\* line 135
OEmbedKey(basePath) == SplitNFirst(basePath, DotJson)

\* lines 134-155
caseOEmbed(c, files) ==
    LET requestPath == OEmbedKey(c.basePath)
        c1 == Call([c EXCEPT !.requestPath = requestPath], "FindOne", "files", requestPath)
        found == FindOne(files, "filename", requestPath)
    IN  IF found = {} THEN Fail(c1, "invalid file")
        ELSE LET file == CHOOSE r \in found : TRUE
                 title == ReplaceAll(file.embed.title, c.host)
                 author == ReplaceAll(file.embed.author, c.host)
             IN  [c1 EXCEPT
                    !.file = [file EXCEPT !.embed.title = title, !.embed.author = author],
                    !.ctx = Write(SetContentType(@, "application/json"),
                                  [kind |-> "OEmbedResponse", version |-> "1.0",
                                   type |-> "link", title |-> title,
                                   author_name |-> author]),
                    !.pc = "done"]

\* (mutant) the scheme is looked for, not the bare prefix "http"
NormalizeByScheme(destination) ==
    IF ~HasPrefix(destination, HttpsScheme) THEN HttpsScheme \o destination
    ELSE destination

\* lines 164-167
Normalize(destination) ==
    IF ~HasPrefix(destination, HttpPrefix) THEN HttpsScheme \o destination
    ELSE destination

\* lines 156-170
caseShortlink(c, shorteners) ==
    LET c1 == Call(c, "FindOne", "shorteners", c.basePath)
        found == FindOne(shorteners, "shortId", c.basePath)
    IN  IF found = {} THEN Fail(c1, "invalid short link")
        ELSE LET shortened == CHOOSE r \in found : TRUE
             IN  [c1 EXCEPT !.ctx = Redirect(@, Normalize(shortened.destination), 301),
                            !.pc = "done"]

\* the switch falls through: nothing is looked up and nothing is written
caseNoop(c) == [c EXCEPT !.pc = "done"]

\* (mutant) a FileRecord found through an alias goes to the fetch unchecked
resolveFileAliasUnchecked(c, files, aliases) ==
    IF HasSuffix(c.basePath, ZW)
    THEN LET c1 == Call(c, "FindOne", "invisibleurls", c.basePath)
             alias == FindOne(aliases, "_id", c.basePath)
         IN  IF alias = {} THEN Fail(c1, "no invisible url or file was found")
             ELSE LET filename == (CHOOSE r \in alias : TRUE).filename
                      c2 == Call(c1, "FindOne", "files", filename)
                      found == FindOne(files, "filename", filename)
                  IN  IF found = {} THEN Fail(c2, "invalid file")
                      ELSE [c2 EXCEPT !.file = CHOOSE r \in found : TRUE,
                                      !.pc = "getObject"]
    ELSE LET c1 == Call(c, "FindOne", "files", c.basePath)
             found == FindOne(files, "filename", c.basePath)
         IN  IF found = {} THEN Fail(c1, "invalid file")
             ELSE [c1 EXCEPT !.file = CHOOSE r \in found : TRUE, !.pc = "domainCheck"]

\* lines 172-192
resolveFile(c, files, aliases) ==
    IF HasSuffix(c.basePath, ZW)
    THEN LET c1 == Call(c, "FindOne", "invisibleurls", c.basePath)
             alias == FindOne(aliases, "_id", c.basePath)
         IN  IF alias = {} THEN Fail(c1, "no invisible url or file was found")
             ELSE LET filename == (CHOOSE r \in alias : TRUE).filename
                      c2 == Call(c1, "FindOne", "files", filename)
                      found == FindOne(files, "filename", filename)
                  IN  IF found = {} THEN Fail(c2, "invalid file")
                      ELSE [c2 EXCEPT !.file = CHOOSE r \in found : TRUE,
                                      !.pc = "domainCheck"]
    ELSE LET c1 == Call(c, "FindOne", "files", c.basePath)
             found == FindOne(files, "filename", c.basePath)
         IN  IF found = {} THEN Fail(c1, "invalid file")
             ELSE [c1 EXCEPT !.file = CHOOSE r \in found : TRUE, !.pc = "domainCheck"]

\* (mutant) the domain rejection reported under a message of its own
domainCheckForbidden(c) ==
    IF c.file.userOnlyDomain = TRUE /\ c.host # c.file.domain
    THEN Fail(c, "forbidden")
    ELSE [c EXCEPT !.pc = "getObject"]

\* lines 194-198
domainCheck(c) ==
    IF c.file.userOnlyDomain = TRUE /\ c.host # c.file.domain
    THEN Fail(c, "invalid file")
    ELSE [c EXCEPT !.pc = "getObject"]

\* lines 200-208
getObject(c, store) ==
    LET c1 == Call(c, "GetObject", "S3_BUCKET_NAME", c.file.key)
    IN  IF c.fault = "GetObject" \/ c.file.key \notin DOMAIN store
        THEN Fail(c1, "GetObject: request failed")
        ELSE [c1 EXCEPT !.resp = store[c.file.key], !.pc = "readAll"]

\* lines 210-215
readAll(c) ==
    IF c.fault = "ReadAll" THEN Fail(c, "ReadAll: unexpected EOF")
    ELSE [c EXCEPT !.body = c.resp.Body, !.pc = "respond"]

\* line 217
Category(mimetype) == SplitNFirst(mimetype, Slash)

\* line 218
CdnURL(key) == <<"S3_ENDPOINT", "/", "S3_BUCKET_NAME", "/", key>>

\* line 223
prepare(c) ==
    [c EXCEPT !.file.embed.description = ReplaceAll(@, c.host)]

\* (mutant) the oEmbed URL and the name built from the requested segment
EmbedDataFromPath(c) ==
    LET mimetype == Category(c.file.mimetype)
    IN  [FileURL |-> CdnURL(c.file.key),
         OEmbedURL |-> <<"https://", c.host, "/">> \o c.basePath \o DotJson,
         Desc |-> c.file.embed.description,
         Color |-> c.file.embed.color,
         Image |-> mimetype = <<"image">>,
         User |-> c.file.uploader.username,
         Name |-> c.basePath,
         Size |-> c.file.size,
         Video |-> mimetype = <<"video">>]

\* lines 233-254
EmbedData(c) ==
    LET mimetype == Category(c.file.mimetype)
    IN  [FileURL |-> CdnURL(c.file.key),
         OEmbedURL |-> <<"https://", c.host, "/">> \o c.file.filename \o DotJson,
         Desc |-> c.file.embed.description,
         Color |-> c.file.embed.color,
         Image |-> mimetype = <<"image">>,
         User |-> c.file.uploader.username,
         Name |-> c.file.filename,
         Size |-> c.file.size,
         Video |-> mimetype = <<"video">>]

\* lines 256-261 and 281-286: t.Execute writes into ctx as it goes, and what it
\* wrote before an error stays in the body
execute(c, name, page) ==
    LET ctx == SetContentType(c.ctx, "text/html")
    IN  IF c.fault = "Execute" THEN Fail([c EXCEPT !.ctx = ctx], "template: exec error")
        ELSE IF c.fault = "ExecuteAfterOutput"
        THEN Fail([c EXCEPT !.ctx = Write(ctx, Fragment(name))], "template: exec error")
        ELSE [c EXCEPT !.ctx = Write(ctx, page), !.pc = "done"]

\* lines 225-261
renderEmbed(c) ==
    IF c.fault = "Parse" THEN Fail(c, "template: parse error")
    ELSE LET data == EmbedData(c)
         IN  execute([c EXCEPT !.data = data], "embed", embedTemplate(data))

\* lines 268-286
renderShowLink(c) ==
    IF c.fault = "Parse" THEN Fail(c, "template: parse error")
    ELSE LET data == [FileURL |-> CdnURL(c.file.key)]
         IN  execute([c EXCEPT !.data = data], "showLink", showLinkTemplate(data))

\* (mutant) the body forwarded without the upstream Content-Type
serveRawBodyOnly(c) ==
    [c EXCEPT !.ctx = SetBody(@, c.body), !.pc = "done"]

\* lines 264-266 and 289-291
serveRaw(c) ==
    [c EXCEPT !.ctx = SetBody(SetContentType(@, deref(c.resp.ContentType)), c.body),
              !.pc = "done"]

\* (mutant) showLink looked at before embed.enabled
BranchShowLinkFirst(file) ==
    IF file.showLink = TRUE
    THEN IF Category(file.mimetype) = <<"video">> THEN "raw" ELSE "showLink"
    ELSE IF file.embed.enabled = TRUE THEN "embed"
    ELSE "raw"

\* The if chain of lines 225, 262, 263 and 288
Branch(file) ==
    IF file.embed.enabled = TRUE THEN "embed"
    ELSE IF file.showLink = TRUE
         THEN IF Category(file.mimetype) = <<"video">> THEN "raw" ELSE "showLink"
         ELSE "raw"

\* lines 217-293
respond(c) ==
    LET c1 == prepare(c)
        b == Branch(c1.file)
    IN  IF b = "embed" THEN renderEmbed(c1)
        ELSE IF b = "showLink" THEN renderShowLink(c1)
        ELSE serveRaw(c1)

\* One step of the invocation c against the stores
Step(c, files, aliases, shorteners, store) ==
    CASE c.pc = "switch" ->
            LET s == Strategy(c.requestPath)
            IN  CASE s = "root-redirect" -> caseRoot(c)
                  [] s = "oembed" -> caseOEmbed(c, files)
                  [] s = "shortlink" -> caseShortlink(c, shorteners)
                  [] s = "file-resolve" -> resolveFile(c, files, aliases)
                  [] OTHER -> caseNoop(c)
      [] c.pc = "domainCheck" -> domainCheck(c)
      [] c.pc = "getObject" -> getObject(c, store)
      [] c.pc = "readAll" -> readAll(c)
      [] c.pc = "respond" -> respond(c)
      [] OTHER -> c

\* The whole invocation: the steps from c until the handler returns
RECURSIVE Run(_, _, _, _, _)
Run(c, files, aliases, shorteners, store) ==
    IF c.pc \in {"done", "idle"} THEN c
    ELSE Run(Step(c, files, aliases, shorteners, store), files, aliases, shorteners, store)

\* requestHandler(ctx) for a request, start to return
requestHandler(path, host, fault, files, aliases, shorteners, store) ==
    Run(Start(path, host, fault), files, aliases, shorteners, store)

----------------------------------------------------------------------------
(* The state machine *)

Init ==
    /\ \E drawn \in {{}} \cup {{r} : r \in FilePool} : collection = drawn \cup {OtherFile}
    /\ invisibleURL = Aliases
    /\ shortenerCol = ShortLinks
    /\ svc = Objects
    /\ h = Idle

stores == <<collection, invisibleURL, shortenerCol, svc>>

Advance == h' = Step(h, collection, invisibleURL, shortenerCol, svc)

\* fasthttp calls requestHandler with a fresh ctx
Accept ==
    /\ h.pc = "idle"
    /\ \E path \in Paths, host \in Hosts, fault \in Faults :
         \* only a file-resolve request reaches a call that can fail
         /\ fault # "none" => Strategy(path) = "file-resolve"
         /\ h' = Start(path, host, fault)
    /\ UNCHANGED stores

AtCase(s) == h.pc = "switch" /\ Strategy(h.requestPath) = s

RootRedirect == AtCase("root-redirect") /\ Advance /\ UNCHANGED stores

OEmbed == AtCase("oembed") /\ Advance /\ UNCHANGED stores

ShortLink == AtCase("shortlink") /\ Advance /\ UNCHANGED stores

NoOp == AtCase("no-op") /\ Advance /\ UNCHANGED stores

ResolveFile == AtCase("file-resolve") /\ Advance /\ UNCHANGED stores

DomainCheck == h.pc = "domainCheck" /\ Advance /\ UNCHANGED stores

GetObject == h.pc = "getObject" /\ Advance /\ UNCHANGED stores

ReadAll == h.pc = "readAll" /\ Advance /\ UNCHANGED stores

RenderEmbed == h.pc = "respond" /\ Branch(h.file) = "embed" /\ Advance /\ UNCHANGED stores

RenderShowLink == h.pc = "respond" /\ Branch(h.file) = "showLink" /\ Advance /\ UNCHANGED stores

ServeRaw == h.pc = "respond" /\ Branch(h.file) = "raw" /\ Advance /\ UNCHANGED stores

\* requestHandler returns; the ctx goes back to fasthttp
Return == h.pc = "done" /\ h' = Idle /\ UNCHANGED stores

Next ==
    \/ Accept
    \/ Return
    \/ RootRedirect
    \/ OEmbed
    \/ ShortLink
    \/ NoOp
    \/ ResolveFile
    \/ DomainCheck
    \/ GetObject
    \/ ReadAll
    \/ RenderEmbed
    \/ RenderShowLink
    \/ ServeRaw

Spec == Init /\ [][Next]_vars

----------------------------------------------------------------------------
(* Properties.  A finished request is the handler at pc = "done": h.path    *)
(* and h.host are the request, h.ctx the response, h.calls the store calls. *)

Done == h.pc = "done"

Lookup(coll, key) == [op |-> "FindOne", on |-> coll, key |-> key]

ErrorCtx(msg) ==
    [status |-> 200, location |-> <<>>, contentType |-> "application/json",
     body |-> <<[kind |-> "Response", success |-> FALSE, error |-> msg]>>]

\* The FileRecord stored under a filename, as a set (empty when there is none)
Stored(filename) == {r \in collection : r.filename = filename}

\* C1: every request path is served by exactly one strategy, the first whose
\* condition holds: "/" is the root redirect (301, no lookup); else a base segment
\* ending in ".json" is oembed (one lookup in files, a JSON answer); else a path
\* under "/s/" whose base segment is not "s" is shortlink (one lookup in shorteners,
\* by the base segment); else a base segment other than "" and "favicon.ico" is
\* file-resolve (first lookup by the base segment); otherwise nothing is looked up
\* and nothing is written.
C1_FirstMatchStrategy ==
    Done =>
        LET p == h.path
            b == Base(h.path)
        IN  IF p = Slash
            THEN /\ h.calls = <<>>
                 /\ h.ctx = [NewCtx EXCEPT !.status = 301, !.location = <<"https://higure.wtf">>]
            ELSE IF HasSuffix(b, DotJson)
            THEN /\ Len(h.calls) = 1
                 /\ h.calls[1].op = "FindOne" /\ h.calls[1].on = "files"
                 /\ h.ctx.status = 200 /\ h.ctx.contentType = "application/json"
                 /\ Len(h.ctx.body) = 1
                 /\ h.ctx.body[1].kind \in {"OEmbedResponse", "Response"}
            ELSE IF HasPrefix(p, SPrefix) /\ b # <<"s">>
            THEN /\ h.calls = <<Lookup("shorteners", b)>>
                 /\ \/ h.ctx.status = 301 /\ h.ctx.body = <<>>
                    \/ h.ctx = ErrorCtx("invalid short link")
            ELSE IF b # <<>> /\ b # Favicon
            THEN /\ Len(h.calls) >= 1
                 /\ h.calls[1] = Lookup(IF HasSuffix(b, ZW) THEN "invisibleurls" ELSE "files", b)
                 /\ h.ctx.status = 200
            ELSE /\ h.calls = <<>>
                 /\ h.ctx = NewCtx

\* C1 witness: "/s/a.json" was answered by oembed, with the oEmbed document of "a"
C1_Witness ==
    /\ Done
    /\ h.path = SPrefix \o <<"a">> \o DotJson
    /\ h.ctx.body = <<[kind |-> "OEmbedResponse", version |-> "1.0", type |-> "link",
                       title |-> <<"file on ", h.host>>,
                       author_name |-> <<h.host, " / ", h.host>>]>>

\* C2: for a base segment b ending in ".json", oembed looks up the FileRecord whose
\* filename is b without its trailing ".json" (and nothing else removed).
C2_OEmbedKeyIsBaseWithoutSuffix ==
    (Done /\ h.path # Slash /\ HasSuffix(Base(h.path), DotJson)) =>
        LET b == Base(h.path)
        IN  h.calls = <<Lookup("files", SubSeq(b, 1, Len(b) - Len(DotJson)))>>

\* C3: a failed lookup or domain check answers with the envelope
\* {success: false, error: m} and nothing else: "invalid file" when the filename
\* looked up last is unknown, "invalid short link" for an unknown shortId, "no
\* invisible url or file was found" for an unknown alias, and "invalid file" when
\* file-resolve finds a FileRecord with userOnlyDomain and a domain other than
\* the request's host.
C3_ResolverErrorMessages ==
    (Done /\ h.calls # <<>>) =>
        LET last == h.calls[Len(h.calls)]
        IN  /\ (last.op = "FindOne" /\ last.on = "files" /\ Stored(last.key) = {})
                => h.ctx = ErrorCtx("invalid file")
            /\ (last.op = "FindOne" /\ last.on = "shorteners"
                    /\ \A r \in shortenerCol : r.shortId # last.key)
                => h.ctx = ErrorCtx("invalid short link")
            /\ (last.op = "FindOne" /\ last.on = "invisibleurls"
                    /\ \A r \in invisibleURL : r._id # last.key)
                => h.ctx = ErrorCtx("no invisible url or file was found")
            /\ (/\ last.op = "FindOne" /\ last.on = "files"
                /\ h.calls[1].key = Base(h.path)
                /\ \E r \in Stored(last.key) : r.userOnlyDomain /\ r.domain # h.host)
                => h.ctx = ErrorCtx("invalid file")

\* C3 witness: a restricted file asked for under another host, through its alias
C3_Witness ==
    /\ Done
    /\ h.path = Slash \o <<"a">> \o ZW
    /\ h.host = "b.com"
    /\ \E r \in Stored(<<"a">>) : r.userOnlyDomain /\ r.domain = "a.com"
    /\ h.ctx = ErrorCtx("invalid file")

\* The request as it would be served with the files collection being `files`
Twin(path, files) ==
    requestHandler(path, h.host, h.fault, files, invisibleURL, shortenerCol, svc)

\* C4: under a host other than its domain a userOnlyDomain FileRecord is not
\* revealed: whatever the path, the response is the one the same request gets
\* when that FileRecord is not in the files collection.
C4_RestrictedFileNotRevealed ==
    Done =>
        \A r \in collection :
            (r.userOnlyDomain /\ r.domain # h.host)
                => h.ctx = Twin(h.path, collection \ {r}).ctx

UpstreamContentType(key) ==
    IF svc[key].ContentType = <<>> THEN "" ELSE svc[key].ContentType[1]

RawCtx(key) ==
    [status |-> 200, location |-> <<>>, contentType |-> UpstreamContentType(key),
     body |-> <<[kind |-> "bytes", bytes |-> svc[key].Body]>>]

\* A request for /f whose FileRecord says to serve the object as it is, the domain
\* policy being satisfied and the object fetched and read
PlainRequestFor(r) ==
    /\ Done
    /\ h.path = Slash \o r.filename
    /\ ~r.embed.enabled /\ ~r.showLink
    /\ (r.userOnlyDomain => r.domain = h.host)
    /\ h.fault \notin {"GetObject", "ReadAll"}

\* C5 as claimed: for every stored filename f with embed.enabled = false and
\* showLink = false, a request for /f returns the object's bytes and its
\* Content-Type, also when f ends in ".json", is "favicon.ico" or ends in U+200B.
C5_RawForEveryFilename ==
    \A r \in collection : PlainRequestFor(r) => h.ctx = RawCtx(r.key)

\* C5, amended: the same for every stored filename f that does not end in ".json",
\* is not "favicon.ico" and does not end in U+200B.
C5_RawForDirectFilename ==
    \A r \in collection :
        (/\ PlainRequestFor(r)
         /\ ~HasSuffix(r.filename, DotJson)
         /\ r.filename # Favicon
         /\ ~HasSuffix(r.filename, ZW))
            => h.ctx = RawCtx(r.key)

\* C5 witness: /a served as the bytes of its object, typed as upstream typed them
C5_Witness ==
    /\ \E r \in collection : PlainRequestFor(r) /\ r.filename = <<"a">> /\ r.key = "k1"
    /\ h.ctx.body = <<[kind |-> "bytes", bytes |-> <<"bytes of", "k1">>]>>
    /\ h.ctx.contentType = "image/png"

\* A file-resolve request that resolved its FileRecord, passed the domain check,
\* fetched and read the object, and met no rendering error
Composed ==
    /\ Done
    /\ h.calls # <<>> /\ h.calls[Len(h.calls)].op = "GetObject"
    /\ h.fault = "none"

CategoryOf(r) ==
    IF HasPrefix(r.mimetype, <<"image", "/">>) THEN "image"
    ELSE IF HasPrefix(r.mimetype, <<"video", "/">>) THEN "video"
    ELSE "other"

\* C6: the kind of response of such a request is decided by embed.enabled, then
\* showLink, then the mimetype category: enabled -> the embed page as text/html,
\* whatever showLink; else showLink and video -> the bytes with the upstream
\* Content-Type; else showLink -> the show-link page as text/html; else the bytes
\* with the upstream Content-Type.  In the embed page Image and Video are never
\* both true and the body variant is the image, the video or the download one
\* according to the category.
C6_ResponseKind ==
    Composed =>
        \E r \in collection :
            /\ r.filename = h.file.filename
            /\ LET cat == CategoryOf(r)
                   body == h.ctx.body
               IN  IF r.embed.enabled
                   THEN /\ h.ctx.contentType = "text/html"
                        /\ Len(body) = 1 /\ body[1].kind = "embed page"
                        /\ h.data.Image = (cat = "image")
                        /\ h.data.Video = (cat = "video")
                        /\ ~(h.data.Image /\ h.data.Video)
                        /\ body[1].variant =
                              (IF cat = "image" THEN "image"
                               ELSE IF cat = "video" THEN "video" ELSE "download")
                   ELSE IF r.showLink /\ cat = "video" THEN h.ctx = RawCtx(r.key)
                   ELSE IF r.showLink
                   THEN /\ h.ctx.contentType = "text/html"
                        /\ Len(body) = 1 /\ body[1].kind = "show-link page"
                   ELSE h.ctx = RawCtx(r.key)

\* C6 witness: embed.enabled and showLink both set, a text file: the embed page
\* with the download body
C6_Witness ==
    /\ Composed
    /\ h.file.embed.enabled /\ h.file.showLink
    /\ h.file.mimetype = <<"text", "/", "plain">>
    /\ h.ctx.body[1].kind = "embed page" /\ h.ctx.body[1].variant = "download"

\* The alias the request named, with the FileRecord it points to in the store
AliasServed(al) ==
    /\ Done
    /\ h.calls # <<>> /\ h.calls[1] = Lookup("invisibleurls", al._id)
    /\ Stored(al.filename) # {}

OEmbedURLFor(filename) == <<"https://", h.host, "/">> \o filename \o DotJson

SameAsDirect(al) ==
    /\ h.ctx = Twin(Slash \o al.filename, collection).ctx
    /\ \A i \in 1..Len(h.ctx.body) :
          h.ctx.body[i].kind = "embed page"
              => h.ctx.body[i].oembedHref = OEmbedURLFor(al.filename)

\* C7 as claimed: for every alias {_id: a, filename: f} whose FileRecord f exists,
\* a request for /a gets the response a request for /f gets under the same host,
\* and an embed page's oEmbed URL is https://h/f.json.
C7_AliasSameAsFilename ==
    \A al \in invisibleURL : AliasServed(al) => SameAsDirect(al)

\* C7, amended: the same for every alias whose filename f does not end in ".json",
\* is not "favicon.ico" and does not end in U+200B.
C7_AliasSameAsDirectFilename ==
    \A al \in invisibleURL :
        (/\ AliasServed(al)
         /\ ~HasSuffix(al.filename, DotJson)
         /\ al.filename # Favicon
         /\ ~HasSuffix(al.filename, ZW))
            => SameAsDirect(al)

\* C7 witness: the alias of "a" answered with the embed page of "a"
C7_Witness ==
    /\ AliasServed([_id |-> <<"a">> \o ZW, filename |-> <<"a">>])
    /\ Len(h.ctx.body) = 1 /\ h.ctx.body[1].kind = "embed page"
    /\ h.ctx.body[1].oembedHref = <<"https://", h.host, "/", "a", ".", "j", "s", "o", "n">>

\* C8: a shortlink request whose ShortLinkRecord exists is answered 301 with no
\* body, to the destination d itself when d begins with "http" and to "https://"
\* followed by d otherwise; the target begins with "http", and normalizing it
\* again changes nothing.
C8_ShortlinkTarget ==
    (Done /\ h.calls # <<>> /\ h.calls[1].on = "shorteners") =>
        \A r \in shortenerCol :
            r.shortId = h.calls[1].key =>
                LET d == r.destination
                    target == h.ctx.location
                IN  /\ h.ctx.status = 301 /\ h.ctx.body = <<>>
                    /\ target = (IF Len(d) >= 4 /\ SubSeq(d, 1, 4) = <<"h", "t", "t", "p">>
                                 THEN d
                                 ELSE <<"h", "t", "t", "p", "s", ":", "/", "/">> \o d)
                    /\ SubSeq(target, 1, 4) = <<"h", "t", "t", "p">>
                    /\ Normalize(target) = target

\* C8 witness: a destination without a scheme, redirected to under https
C8_Witness ==
    /\ Done
    /\ h.path = SPrefix \o <<"a">>
    /\ h.ctx.status = 301
    /\ h.ctx.location = <<"h", "t", "t", "p", "s", ":", "/", "/", "e", ".", "c", "/", "x">>

\* C9: a request that enters an error path ends with a body that is one JSON error
\* envelope and nothing else, under Content-Type application/json.
C9_NoPartialResponse ==
    (Done /\ \E i \in 1..Len(h.ctx.body) : h.ctx.body[i].kind = "Response") =>
        /\ Len(h.ctx.body) = 1
        /\ h.ctx.contentType = "application/json"

GetObjectCalls == {i \in 1..Len(h.calls) : h.calls[i].op = "GetObject"}

IsFileResolve ==
    LET b == Base(h.path)
    IN  /\ h.path # Slash
        /\ ~HasSuffix(b, DotJson)
        /\ ~(HasPrefix(h.path, SPrefix) /\ b # <<"s">>)
        /\ b # <<>> /\ b # Favicon

NotFoundMessages ==
    {"invalid file", "invalid short link", "no invisible url or file was found"}

Errored == \E i \in 1..Len(h.ctx.body) : h.ctx.body[i].kind = "Response"

Rendered ==
    /\ ~Errored
    /\ h.ctx.body # <<>>
    /\ h.ctx.body[Len(h.ctx.body)].kind \in {"embed page", "show-link page"}

RawServed ==
    /\ ~Errored
    /\ Len(h.ctx.body) = 1 /\ h.ctx.body[1].kind = "bytes"

\* C10: a file-resolve request fetches from the object store at most once, and
\* only after the FileRecord lookup (after the alias lookup, for an alias)
\* succeeded and the domain check passed; a request ending in a not-found error,
\* and any request of another strategy, never calls the object store; a page or
\* bytes are written only after the object was fetched and read; and a finished
\* file-resolve request is in exactly one of Rendered, RawServed and Errored.
C10_StepOrder ==
    /\ Cardinality(GetObjectCalls) <= 1
    /\ \A i \in GetObjectCalls :
          /\ IsFileResolve
          /\ i = Len(h.calls)
          /\ i = (IF HasSuffix(Base(h.path), ZW) THEN 3 ELSE 2)
          /\ h.calls[i - 1].op = "FindOne" /\ h.calls[i - 1].on = "files"
          /\ \E r \in Stored(h.calls[i - 1].key) :
                /\ h.calls[i].key = r.key
                /\ r.userOnlyDomain => r.domain = h.host
          /\ i = 3 =>
                /\ h.calls[1] = Lookup("invisibleurls", Base(h.path))
                /\ \E al \in invisibleURL :
                      al._id = Base(h.path) /\ al.filename = h.calls[2].key
          /\ i = 2 => h.calls[1] = Lookup("files", Base(h.path))
    /\ h.pc \in {"readAll", "respond"} => GetObjectCalls # {}
    /\ (Done /\ \E i \in 1..Len(h.ctx.body) :
                  /\ h.ctx.body[i].kind = "Response"
                  /\ h.ctx.body[i].error \in NotFoundMessages)
          => GetObjectCalls = {}
    /\ (\E i \in 1..Len(h.ctx.body) :
            h.ctx.body[i].kind \in {"bytes", "embed page", "show-link page", "fragment"})
          => /\ GetObjectCalls # {}
             /\ h.fault \notin {"GetObject", "ReadAll"}
             /\ h.body = svc[h.file.key].Body
    /\ (Done /\ IsFileResolve) =>
          /\ Rendered \/ RawServed \/ Errored
          /\ ~(Rendered /\ RawServed) /\ ~(Rendered /\ Errored) /\ ~(RawServed /\ Errored)

\* C10 witness: an alias request that went through both lookups, the domain check
\* of a restricted file, the fetch, and ended Rendered
C10_Witness ==
    /\ Done
    /\ Len(h.calls) = 3 /\ h.calls[3].op = "GetObject"
    /\ h.file.userOnlyDomain
    /\ Rendered

====
